---- MODULE Spec2Model ----
(***************************************************************************)
(* Streaming video processors of readers/processors.py: ProcessorBase      *)
(* (the call wrapper and its throughput monitor), OnlineStats,             *)
(* PixelCatcher and BoxCatcher.                                            *)
(*                                                                         *)
(* A numpy array is a record [shape, data]: its shape and its elements in  *)
(* C order.  An element is an extended rational [n, d]: d > 0 is the       *)
(* number n/d in lowest terms, 1/0 and -1/0 are +inf and -inf, 0/0 is nan. *)
(* Time is counted in quarter seconds.                                     *)
(***************************************************************************)
EXTENDS Integers, Sequences, FiniteSets, TLC

VARIABLES
    kind,                    \* class of the object: "base", "stats", "pixel", "box"
    monitor, deltas, total_frames, start, runtime,
    frames_since_last_call, last_print,          \* ProcessorBase attributes
    shape, mean, var, count,                     \* OnlineStats attributes
    pixels, values, ranges,                      \* PixelCatcher / BoxCatcher attributes
    clock,                   \* last value time.perf_counter() returned
    calls,                   \* history: every __call__ made, with how it ended
    op,                      \* the last operation: "init", "call" or "extract"
    err,                     \* how the last operation ended: "ok" or the exception
    out                      \* what the last extract() returned

base_vars == <<monitor, deltas, total_frames, start, runtime,
               frames_since_last_call, last_print>>
stats_vars == <<shape, mean, var, count>>
catch_vars == <<pixels, values, ranges>>
self_vars == <<kind, base_vars, stats_vars, catch_vars>>
vars == <<self_vars, clock, calls, op, err, out>>

----------------------------------------------------------------------------
(* Bounds of the model *)

\* calls made on one object under Spec
MaxCalls == 2
\* latest clock reading under SpecMonitor
MaxTime == 36

(* Program constants *)

\* the 3 of reshape((-1, len(self.pixels), 3)) and of the frame layout
NColors == 3
\* qlen=10, the maxlen of the deque
qlen == 10
\* monitor_freq = 0.5 seconds, in quarter seconds
monitor_freq == 2

----------------------------------------------------------------------------
(* float64 arithmetic, exact on the rationals, with IEEE inf and nan *)

Abs(x) == IF x < 0 THEN -x ELSE x

Sign(x) == IF x < 0 THEN -1 ELSE IF x > 0 THEN 1 ELSE 0

RECURSIVE GCD(_, _)
GCD(a, b) == IF b = 0 THEN a ELSE GCD(b, a % b)

Norm(n, d) ==
    IF d = 0 THEN [n |-> Sign(n), d |-> 0]
    ELSE LET g == GCD(Abs(n), Abs(d))
             s == Sign(d)
         IN  [n |-> (s * n) \div g, d |-> (s * d) \div g]

Rat(i) == [n |-> i, d |-> 1]

NaN == [n |-> 0, d |-> 0]

IsFinite(x) == x.d # 0

RAdd(a, b) ==
    IF a.d = 0 /\ b.d = 0 THEN (IF a.n = b.n THEN a ELSE NaN)
    ELSE Norm(a.n * b.d + b.n * a.d, a.d * b.d)

RNeg(a) == [n |-> -a.n, d |-> a.d]

RSub(a, b) == RAdd(a, RNeg(b))

RMul(a, b) == Norm(a.n * b.n, a.d * b.d)

RDiv(a, b) == Norm(a.n * b.d, a.d * b.n)

----------------------------------------------------------------------------
(* numpy arrays *)

RECURSIVE Prod(_)
Prod(s) == IF s = <<>> THEN 1 ELSE Head(s) * Prod(Tail(s))

RECURSIVE SumSeq(_)
SumSeq(s) == IF s = <<>> THEN Rat(0) ELSE RAdd(Head(s), SumSeq(Tail(s)))

\* s[-k:] and s[:-k] of a tuple, k >= 1
Suffix(s, k) == IF k >= Len(s) THEN s ELSE SubSeq(s, Len(s) - k + 1, Len(s))
Prefix(s, k) == IF k >= Len(s) THEN <<>> ELSE SubSeq(s, 1, Len(s) - k)

\* flat offset (from 0) <-> index tuple (from 0), C order
RECURSIVE Unravel(_, _)
Unravel(i, s) ==
    IF s = <<>> THEN <<>>
    ELSE LET inner == Prod(Tail(s))
         IN  <<i \div inner>> \o Unravel(i % inner, Tail(s))

RECURSIVE Ravel(_, _)
Ravel(idx, s) ==
    IF s = <<>> THEN 0
    ELSE Head(idx) * Prod(Tail(s)) + Ravel(Tail(idx), Tail(s))

Arr(s, d) == [shape |-> s, data |-> d]

Scalar(x) == Arr(<<>>, <<x>>)

\* np.zeros(shape)
Zeros(s) == Arr(s, [i \in 1..Prod(s) |-> Rat(0)])

\* a[sel[1], sel[2], ...]: sel[k] lists the indices (from 0) kept along axis k
Select(a, sel) ==
    LET rs == [k \in 1..Len(sel) |-> Len(sel[k])]
    IN  Arr(rs, [j \in 1..Prod(rs) |->
                   LET m == Unravel(j - 1, rs)
                   IN  a.data[1 + Ravel([k \in 1..Len(sel) |-> sel[k][m[k] + 1]],
                                        a.shape)]])

\* range(n) as a sequence
Range0(n) == [i \in 1..n |-> i - 1]

\* the indices slice(lo, hi) selects on an axis of length n (Python's rules)
SliceIdx(lo, hi, n) ==
    LET cl(x) == IF x < 0 THEN (IF x + n < 0 THEN 0 ELSE x + n)
                 ELSE (IF x > n THEN n ELSE x)
        a == cl(lo)
        b == cl(hi)
    IN  IF b > a THEN [i \in 1..(b - a) |-> a + i - 1] ELSE <<>>

\* a.reshape(s), where s may hold one -1; "error" stands for the ValueError
ReshapeShape(size, s) ==
    LET holes == {k \in 1..Len(s) : s[k] = -1}
        known == Prod([k \in 1..Len(s) |-> IF s[k] = -1 THEN 1 ELSE s[k]])
    IN  IF holes = {} THEN (IF known = size THEN s ELSE <<-1>>)
        ELSE IF known = 0 \/ size % known # 0 THEN <<-1>>
        ELSE [k \in 1..Len(s) |-> IF s[k] = -1 THEN size \div known ELSE s[k]]

ReshapeOK(a, s) == ReshapeShape(Len(a.data), s) # <<-1>>

Reshape(a, s) == Arr(ReshapeShape(Len(a.data), s), a.data)

\* broadcasting of two shapes
PadShape(s, n) == [k \in 1..n |-> IF k <= n - Len(s) THEN 1 ELSE s[k - (n - Len(s))]]

MaxLen(s, t) == IF Len(s) > Len(t) THEN Len(s) ELSE Len(t)

CanBroadcast(s, t) ==
    LET n == MaxLen(s, t)
        ps == PadShape(s, n)
        pt == PadShape(t, n)
    IN  \A k \in 1..n : ps[k] = pt[k] \/ ps[k] = 1 \/ pt[k] = 1

BroadcastShape(s, t) ==
    LET n == MaxLen(s, t)
        ps == PadShape(s, n)
        pt == PadShape(t, n)
    IN  [k \in 1..n |-> IF ps[k] = 1 THEN pt[k] ELSE ps[k]]

\* the element of a that element j (from 1) of the broadcast shape rs reads
BroadcastGet(a, j, rs) ==
    IF a.shape = rs THEN a.data[j]
    ELSE IF a.shape = <<>> THEN a.data[1]
    ELSE LET n == Len(rs)
             m == Unravel(j - 1, rs)
             ps == PadShape(a.shape, n)
         IN  a.data[1 + Ravel([k \in 1..n |-> IF ps[k] = 1 THEN 0 ELSE m[k]], ps)]

\* x op y on two elements, op one of "+", "-", "*", "/"
Elem(op_, x, y) ==
    CASE op_ = "+" -> RAdd(x, y)
      [] op_ = "-" -> RSub(x, y)
      [] op_ = "*" -> RMul(x, y)
      [] op_ = "/" -> RDiv(x, y)

\* a op b, elementwise with broadcasting
Zip(op_, a, b) ==
    LET rs == BroadcastShape(a.shape, b.shape)
    IN  Arr(rs, [j \in 1..Prod(rs) |->
                   Elem(op_, BroadcastGet(a, j, rs), BroadcastGet(b, j, rs))])

\* np.mean(a, axis=0); an empty axis gives nan
MeanAxis0(a) ==
    LET n == Head(a.shape)
        rs == Tail(a.shape)
        inner == Prod(rs)
    IN  Arr(rs, [j \in 1..inner |->
                   RDiv(SumSeq([i \in 1..n |-> a.data[(i - 1) * inner + j]]), Rat(n))])

\* np.var(a, axis=0): the population variance, mean(|a - mean(a)|**2)
VarAxis0(a) ==
    LET n == Head(a.shape)
        rs == Tail(a.shape)
        inner == Prod(rs)
        m == MeanAxis0(a)
        sq(x) == RMul(x, x)
    IN  Arr(rs, [j \in 1..inner |->
                   RDiv(SumSeq([i \in 1..n |->
                                  sq(RSub(a.data[(i - 1) * inner + j], m.data[j]))]),
                        Rat(n))])

----------------------------------------------------------------------------
(* OnlineStats *)

Raised(e) == [err |-> e, mean |-> mean, var |-> var, count |-> count, values |-> values]

\* OnlineStats.__process__(data): the exception raised or the new attributes
StatsProcess(data) ==
    IF Suffix(data.shape, Len(shape)) # shape THEN Raised("ValueError")
    ELSE IF ~ReshapeOK(data, <<-1>> \o shape) THEN Raised("ValueError")
    ELSE
    LET b_count == Head(data.shape)
        b_mean == MeanAxis0(data)
        b_var == VarAxis0(data)
    IN  IF ~CanBroadcast(var.shape, b_var.shape) THEN Raised("ValueError")
        ELSE
        LET diff == Zip("-", mean, b_mean)
            m1 == Zip("*", var, Scalar(Rat(count - 1)))
            m2 == Zip("*", b_var, Scalar(Rat(b_count - 1)))
            dsq == Zip("*", diff, diff)
            cross == Zip("/",
                         Zip("*", Zip("*", dsq, Scalar(Rat(b_count))),
                             Scalar(Rat(count))),
                         Scalar(Rat(b_count + count)))
            M2 == Zip("+", Zip("+", m1, m2), cross)
            new_mean == Zip("/",
                            Zip("+", Zip("*", Scalar(Rat(b_count)), b_mean),
                                Zip("*", Scalar(Rat(count)), mean)),
                            Scalar(Rat(b_count + count)))
            new_count == count + b_count
        IN  [err |-> "ok", mean |-> new_mean, count |-> new_count,
             var |-> Zip("/", M2, Scalar(Rat(new_count - 1))), values |-> values]

----------------------------------------------------------------------------
(* PixelCatcher *)

RECURSIVE Flatten(_)
Flatten(ss) == IF ss = <<>> THEN <<>> ELSE Head(ss) \o Flatten(Tail(ss))

RECURSIVE SumInt(_)
SumInt(s) == IF s = <<>> THEN 0 ELSE Head(s) + SumInt(Tail(s))

\* whether np.concatenate(as, axis) accepts the arrays
CanConcat(as, axis) ==
    /\ as # <<>>
    /\ \A i \in 1..Len(as) :
          /\ Len(as[i].shape) = Len(as[1].shape)
          /\ Len(as[i].shape) >= axis + 1
          /\ \A k \in 1..Len(as[i].shape) :
                k # axis + 1 => as[i].shape[k] = as[1].shape[k]

\* np.concatenate(as, axis=0)
ConcatAxis0(as) ==
    Arr(<<SumInt([i \in 1..Len(as) |-> as[i].shape[1]])>> \o Tail(as[1].shape),
        Flatten([i \in 1..Len(as) |-> as[i].data]))

\* np.concatenate(as, axis=1)
ConcatAxis1(as) ==
    LET n0 == as[1].shape[1]
        inner(a) == Prod(Tail(a.shape))
        row(a, i) == SubSeq(a.data, (i - 1) * inner(a) + 1, i * inner(a))
    IN  Arr(<<n0, SumInt([i \in 1..Len(as) |-> as[i].shape[2]])>>
              \o Tail(Tail(as[1].shape)),
            Flatten([i \in 1..n0 |-> Flatten([p \in 1..Len(as) |-> row(as[p], i)])]))

\* whether the integer index i is valid on an axis of length n
IndexOK(i, n) == -n <= i /\ i < n

\* frames[:, loc[1], loc[0], None, :]: row and column exchanged
PixelAtTransposed(frames, loc) ==
    LET s == frames.shape
        sel == [k \in 1..Len(s) |->
                  IF k = 2 THEN <<loc[2] % s[2]>>
                  ELSE IF k = 3 THEN <<loc[1] % s[3]>>
                  ELSE Range0(s[k])]
    IN  Arr(<<s[1], 1>> \o SubSeq(s, 4, Len(s)), Select(frames, sel).data)

\* frames[:, loc[0], loc[1], None, :]
PixelAt(frames, loc) ==
    LET s == frames.shape
        sel == [k \in 1..Len(s) |->
                  IF k = 2 THEN <<loc[1] % s[2]>>
                  ELSE IF k = 3 THEN <<loc[2] % s[3]>>
                  ELSE Range0(s[k])]
    IN  Arr(<<s[1], 1>> \o SubSeq(s, 4, Len(s)), Select(frames, sel).data)

\* the list grown at its front
LoggedInFront(log, vals) == <<vals>> \o log

\* the list grown by self.values += [vals] and by self.values.append(vals)
Logged(log, vals) == Append(log, vals)

\* the exception the two statements that build vals raise on frames, or "ok"
PixelRaises(frames, pix) ==
    LET s == frames.shape
    IN  IF Len(s) < 4 THEN "IndexError"
        ELSE IF \E p \in 1..Len(pix) :
                   ~IndexOK(pix[p][1], s[2]) \/ ~IndexOK(pix[p][2], s[3])
        THEN "IndexError"
        ELSE IF pix = <<>> THEN "ValueError"
        ELSE "ok"

\* vals: the pixels' values, concatenated along axis 1
PixelVals(frames, pix) ==
    ConcatAxis1([p \in 1..Len(pix) |-> PixelAt(frames, pix[p])])

\* PixelCatcher.__process__(frames)
PixelProcess(frames) ==
    IF PixelRaises(frames, pixels) # "ok" THEN Raised(PixelRaises(frames, pixels))
    ELSE [Raised("ok") EXCEPT !.values = Logged(values, PixelVals(frames, pixels))]

Returned(e, v) == [err |-> e, out |-> v]

None == Arr(<<-1>>, <<>>)

\* the result of PixelCatcher.extract() on the log vs
PixelExtractOf(vs, npix) ==
    IF ~CanConcat(vs, 0) THEN Returned("ValueError", None)
    ELSE LET v == ConcatAxis0(vs)
         IN  IF ~ReshapeOK(v, <<-1, npix, NColors>>) THEN Returned("ValueError", None)
             ELSE Returned("ok", Reshape(v, <<-1, npix, NColors>>))

\* PixelCatcher.extract()
PixelExtract == PixelExtractOf(values, Len(pixels))

----------------------------------------------------------------------------
(* BoxCatcher *)

\* the slices precomputed by BoxCatcher.__init__, each as <<start, stop>>
BoxRanges(pix, box_size) ==
    LET off_h == box_size[1] \div 2
        off_v == box_size[2] \div 2
    IN  [p \in 1..Len(pix) |->
           << <<pix[p][1] - off_v, pix[p][1] + off_v + 1>>,
              <<pix[p][2] - off_h, pix[p][2] + off_h + 1>> >>]

\* frames[..., rx, ry, :]
BoxAt(frames, r) ==
    LET s == frames.shape
        n == Len(s)
        sel == [k \in 1..n |->
                  IF k = n - 2 THEN SliceIdx(r[1][1], r[1][2], s[k])
                  ELSE IF k = n - 1 THEN SliceIdx(r[2][1], r[2][2], s[k])
                  ELSE Range0(s[k])]
    IN  Select(frames, sel)

\* BoxCatcher.__process__(frames)
BoxProcess(frames) ==
    LET s == frames.shape
        extra_dims == Prefix(s, 3)
        to == extra_dims \o <<-1, s[Len(s)]>>
    IN  IF Len(s) < 3 THEN Raised("IndexError")
        ELSE IF \E p \in 1..Len(ranges) : ~ReshapeOK(BoxAt(frames, ranges[p]), to)
        THEN Raised("ValueError")
        ELSE LET vals == [p \in 1..Len(ranges) |-> Reshape(BoxAt(frames, ranges[p]), to)]
             IN  [Raised("ok") EXCEPT !.values = Logged(values, vals)]

\* whether np.asarray accepts the list of lists of arrays vs (all of one shape)
Homogeneous(vs) ==
    \A k \in 1..Len(vs) :
       /\ Len(vs[k]) = Len(vs[1])
       /\ \A p \in 1..Len(vs[k]) : vs[k][p].shape = vs[1][1].shape

\* np.asarray(vs)
Stack(vs) ==
    Arr(<<Len(vs), Len(vs[1])>> \o vs[1][1].shape,
        Flatten([k \in 1..Len(vs) |-> Flatten([p \in 1..Len(vs[k]) |-> vs[k][p].data])]))

\* np.mean(a, axis=-2)
MeanAxisM2(a) ==
    LET n == Len(a.shape)
        len == a.shape[n - 1]
        rs == [k \in 1..(n - 1) |-> IF k = n - 1 THEN a.shape[n] ELSE a.shape[k]]
        at(m, i) == [k \in 1..n |-> IF k < n - 1 THEN m[k]
                                    ELSE IF k = n - 1 THEN i ELSE m[n - 1]]
    IN  Arr(rs, [j \in 1..Prod(rs) |->
                   LET m == Unravel(j - 1, rs)
                   IN  RDiv(SumSeq([i \in 1..len |->
                                      a.data[1 + Ravel(at(m, i - 1), a.shape)]]),
                            Rat(len))])

\* the result of BoxCatcher.extract() on the log vs, with agg = np.mean
BoxExtractOf(vs) ==
    IF vs = <<>> THEN Returned("AxisError", None)
    ELSE IF ~Homogeneous(vs) \/ vs[1] = <<>> THEN Returned("ValueError", None)
    ELSE LET agg_val == MeanAxisM2(Stack(vs))
             to == <<-1>> \o Suffix(agg_val.shape, 2)
         IN  IF ~ReshapeOK(agg_val, to) THEN Returned("ValueError", None)
             ELSE Returned("ok", Reshape(agg_val, to))

\* BoxCatcher.extract()
BoxExtract == BoxExtractOf(values)

----------------------------------------------------------------------------
(* ProcessorBase *)

\* self.__process__(frames), dispatched on the class of the object;
\* ProcessorBase's own is the dummy that returns at once
Process(frames) ==
    CASE kind = "stats" -> StatsProcess(frames)
      [] kind = "pixel" -> PixelProcess(frames)
      [] kind = "box" -> BoxProcess(frames)
      [] OTHER -> Raised("ok")

\* n_frames taken from the first axis alone
NFramesFirstAxis(frames) ==
    IF Len(frames.shape) = 3 THEN 1 ELSE Head(frames.shape)

\* n_frames of __call__, for frames.ndim >= 3
NFrames(frames) ==
    IF Len(frames.shape) = 3 THEN 1 ELSE Prod(Prefix(frames.shape, 3))

\* self.deltas.append(x): the entry goes to the right end
AppendRight(dq, x) ==
    LET grown == dq \o <<x>>
    IN  IF Len(grown) > qlen THEN SubSeq(grown, 2, Len(grown)) ELSE grown

\* self.deltas.appendleft(x) on a deque of maxlen qlen
AppendLeft(dq, x) ==
    LET grown == <<x>> \o dq
    IN  IF Len(grown) > qlen THEN SubSeq(grown, 1, qlen) ELSE grown

\* ProcessorBase.get_fps(), for runtime > 0
get_fps == Norm(total_frames, runtime)

\* ProcessorBase.__call__(frames); the clock advances by dt up to its reading
Call(frames, dt) ==
    LET p == CHOOSE x \in {Process(frames)} : TRUE
        ended(e) == /\ calls' = Append(calls, [frames |-> frames, err |-> e])
                    /\ err' = e
                    /\ op' = "call"
    IN  /\ UNCHANGED <<kind, monitor, start, shape, pixels, ranges, out>>
        /\ IF p.err # "ok"
           THEN /\ ended(p.err)
                /\ UNCHANGED <<mean, var, count, values, deltas, total_frames, runtime,
                               frames_since_last_call, last_print, clock>>
           ELSE /\ mean' = p.mean
                /\ var' = p.var
                /\ count' = p.count
                /\ values' = p.values
                /\ IF ~monitor
                   THEN /\ ended("ok")
                        /\ UNCHANGED <<deltas, total_frames, runtime,
                                       frames_since_last_call, last_print, clock>>
                   ELSE IF Len(frames.shape) < 3
                   THEN /\ ended("UnboundLocalError")
                        /\ UNCHANGED <<deltas, total_frames, runtime,
                                       frames_since_last_call, last_print, clock>>
                   ELSE LET n_frames == NFrames(frames)
                            now == clock + dt
                            delta == now - last_print
                        IN  /\ ended("ok")
                            /\ total_frames' = total_frames + n_frames
                            /\ clock' = now
                            /\ runtime' = now - start
                            /\ IF delta > monitor_freq
                               THEN /\ deltas' = AppendLeft(deltas,
                                            <<delta, frames_since_last_call + n_frames>>)
                                    /\ last_print' = now
                                    /\ frames_since_last_call' = 0
                               ELSE /\ frames_since_last_call' =
                                            frames_since_last_call + n_frames
                                    /\ UNCHANGED <<deltas, last_print>>

\* extract() of PixelCatcher and of BoxCatcher
Extract ==
    /\ kind \in {"pixel", "box"}
    /\ LET r == IF kind = "pixel" THEN PixelExtract ELSE BoxExtract
       IN  out' = r.out /\ err' = r.err
    /\ op' = "extract"
    /\ UNCHANGED <<self_vars, clock, calls>>

----------------------------------------------------------------------------
(* Construction and the driver *)

\* the (height, width, n_colors) of a frame
FrameShape == <<2, 2, NColors>>

\* the shapes of a data point OnlineStats is built for
StatShapes == {<<NColors>>, FrameShape}

\* the pixel lists the catchers are built with, and the (pixels, box_size)
\* a BoxCatcher is built with
PixelLists == { << <<0, 0>> >>, << <<0, 1>>, <<1, 0>> >> }

BoxConfigs ==
    { << << <<0, 0>> >>, <<1, 1>> >>,
      << << <<0, 1>>, <<1, 0>> >>, <<1, 1>> >>,
      << << <<0, 1>>, <<1, 0>> >>, <<3, 3>> >> }

\* the leading dimensions of a batch: none, one axis, two axes
LeadDims == { <<>>, <<0>>, <<1>>, <<2>>, <<1, 2>> }

\* the intervals between two readings of the clock
TimeSteps == {monitor_freq, monitor_freq + 1}

\* the clock is read by a monitored object alone
Readings == IF monitor THEN TimeSteps ELSE {monitor_freq}

\* a batch of the given shape with pixel values that tell the positions apart
Frames(s, seed) == Arr(s, [i \in 1..Prod(s) |-> Rat(7 * seed + i - 1)])

\* the batches the driver hands to the object: one of each leading shape, a
\* second stack of two frames with other contents and, for OnlineStats, a
\* batch of another geometry
Batches ==
    LET frameShape == IF kind = "stats" THEN shape ELSE FrameShape
        mismatch == IF kind = "stats" THEN {<<2, 2>>} ELSE {}
    IN  {Frames(l \o frameShape, 0) : l \in LeadDims}
        \cup {Frames(<<2>> \o frameShape, 1)}
        \cup {Frames(s, 0) : s \in mismatch}

\* __init__ of the class k
Construct(k, mon, shp, pix, box_size) ==
    /\ kind = k
    /\ monitor = mon
    /\ deltas = <<>>
    /\ total_frames = 0
    /\ clock = 0
    /\ start = 0
    /\ runtime = 0
    /\ frames_since_last_call = 0
    /\ last_print = 0
    /\ shape = shp
    /\ mean = Zeros(shp)
    /\ var = Zeros(shp)
    /\ count = 0
    /\ pixels = pix
    /\ values = <<>>
    /\ ranges = IF k = "box" THEN BoxRanges(pix, box_size) ELSE <<>>
    /\ calls = <<>>
    /\ op = "init"
    /\ err = "ok"
    /\ out = None

Init ==
    \E mon \in BOOLEAN :
       \/ \E shp \in StatShapes : Construct("stats", mon, shp, <<>>, <<>>)
       \/ \E pix \in PixelLists : Construct("pixel", mon, <<>>, pix, <<>>)
       \/ \E c \in BoxConfigs : Construct("box", mon, <<>>, c[1], c[2])

Next ==
    \/ /\ Len(calls) < MaxCalls
       /\ \E frames \in Batches, dt \in Readings : Call(frames, dt)
    \/ Extract

Spec == Init /\ [][Next]_vars

\* the monitor alone, on a ProcessorBase fed batches of two frames
MonitorBatch == Frames(<<2>> \o FrameShape, 0)

InitMonitor == Construct("base", TRUE, <<>>, <<>>, <<>>)

NextMonitor ==
    \E dt \in TimeSteps : clock + dt <= MaxTime /\ Call(MonitorBatch, dt)

SpecMonitor == InitMonitor /\ [][NextMonitor]_vars

----------------------------------------------------------------------------
(* What the history says: the calls that ended without an exception, the    *)
(* number of frames of a batch, the frames of all batches side by side      *)

IsOk(c) == c.err = "ok"

OkCalls == SelectSeq(calls, IsOk)

\* the per-frame shape the object is built for
ConfiguredShape == IF kind = "stats" THEN shape ELSE FrameShape

\* N: the product of the leading dimensions of a batch
LeadingCount(frames) == Prod(Prefix(frames.shape, Len(ConfiguredShape)))

\* the frames of the calls cs, concatenated into one array (N_total, shape...)
AllFrames(cs) ==
    Arr(<<SumInt([k \in 1..Len(cs) |-> LeadingCount(cs[k].frames)])>> \o ConfiguredShape,
        Flatten([k \in 1..Len(cs) |-> cs[k].frames.data]))

\* a stack (n, shape...) of n >= least data points
IsStack(frames, least) ==
    /\ frames.shape = <<Head(frames.shape)>> \o ConfiguredShape
    /\ Head(frames.shape) >= least

AllFinite(a) == \A i \in 1..Len(a.data) : IsFinite(a.data[i])

----------------------------------------------------------------------------
(* OnlineStats: claims C1, C2, C3 *)

\* C1: however the frames are chunked into non-empty batches, mean, variance
\* and count equal the mean, the population variance and the number of frames
\* of the concatenation of all frames.  Stated for chunkings into stacks of
\* two frames or more, where the first-single-frame case of C2 and the
\* leading-dimension case of C3 do not arise.
C1_ChunkingEqualsDirect ==
    (/\ kind = "stats"
     /\ calls # <<>>
     /\ \A k \in 1..Len(calls) : IsOk(calls[k]) /\ IsStack(calls[k].frames, 2))
    => /\ count = Head(AllFrames(calls).shape)
       /\ mean = MeanAxis0(AllFrames(calls))
       /\ var = VarAxis0(AllFrames(calls))

\* C2: after the first update, with a stack of n_b >= 1 frames, the variance is
\* the batch's own population variance and is a defined number; for one
\* frame the variance is 0, the mean is that frame and the count is 1.
C2_FirstBatchVariance ==
    (/\ kind = "stats"
     /\ Len(calls) = 1
     /\ IsOk(calls[1])
     /\ IsStack(calls[1].frames, 1))
    => /\ var = VarAxis0(calls[1].frames)
       /\ AllFinite(var)
       /\ Head(calls[1].frames.shape) = 1
            => /\ var = Zeros(shape)
               /\ mean = Arr(shape, calls[1].frames.data)
               /\ count = 1

\* the calls whose update ran to its end
Updated(c) == c.err \in {"ok", "UnboundLocalError"}

\* C3: count is the sum, over the updates made, of N, the product of the
\* batch's leading dimensions.
C3_CountIsSumOfN ==
    kind = "stats"
    => count = SumInt([k \in 1..Len(SelectSeq(calls, Updated)) |->
                         LeadingCount(SelectSeq(calls, Updated)[k].frames)])

----------------------------------------------------------------------------
(* All processors: claims C4, C5 *)

\* C4: a call that ends in an error leaves the whole state of the object as
\* it was before the call.
C4_FailedCallChangesNothing ==
    [][(calls' # calls /\ err' # "ok") => UNCHANGED self_vars]_vars

\* C5: a call with a batch of N = 0 frames leaves the statistics, the count
\* and the sample log as they were.
C5_EmptyBatchChangesNothing ==
    [][(calls' # calls /\ LeadingCount(calls'[Len(calls')].frames) = 0)
         => UNCHANGED <<mean, var, count, values>>]_vars

----------------------------------------------------------------------------
(* PixelCatcher and BoxCatcher: claims C6, C7, C8 *)

\* the array C6 describes: entry (f, p) is the channel vector at pixels[p] of
\* the f-th frame of the batches cs, frames counted in call order
ExpectedPixels(cs) ==
    LET all == AllFrames(cs)
        rs == <<Head(all.shape), Len(pixels), NColors>>
    IN  Arr(rs, [j \in 1..Prod(rs) |->
                   LET m == Unravel(j - 1, rs)
                   IN  all.data[1 + Ravel(<<m[1], pixels[m[2] + 1][1],
                                            pixels[m[2] + 1][2], m[3]>>, all.shape)]])

PixelLogOf(cs) == [k \in 1..Len(cs) |-> PixelVals(cs[k].frames, pixels)]

\* C7: for the same pixels and the same K >= 1 update batches, extract() of a
\* BoxCatcher with box size (1, 1) and the mean returns the array that
\* extract() of a PixelCatcher returns.
C7_UnitBoxEqualsPixel ==
    (/\ kind = "box"
     /\ op = "extract"
     /\ ranges = BoxRanges(pixels, <<1, 1>>)
     /\ OkCalls # <<>>
     /\ \A k \in 1..Len(OkCalls) : PixelRaises(OkCalls[k].frames, pixels) = "ok")
    => Returned(err, out) = PixelExtractOf(PixelLogOf(OkCalls), Len(pixels))

\* C8: extract() leaves the log as it is; a call leaves it as it is or puts
\* one entry at its end; an extract() right after an extract() returns the
\* same; and what PixelCatcher.extract() returns holds every entry of the
\* log, in the order of the updates.
C8_ExtractKeepsLog ==
    [][/\ op' = "extract" => values' = values
       /\ (op = "extract" /\ op' = "extract") => (out' = out /\ err' = err)
       /\ calls' # calls =>
             \/ values' = values
             \/ /\ Len(values') = Len(values) + 1
                /\ SubSeq(values', 1, Len(values)) = values
       /\ (calls' # calls /\ err' = "ok" /\ kind \in {"pixel", "box"}) =>
             Len(values') = Len(values) + 1
       /\ (op' = "extract" /\ err' = "ok" /\ kind = "pixel") =>
             out'.data = Flatten([k \in 1..Len(values) |-> values[k].data])
      ]_vars

\* an extract() that returned an array over a log of two different entries
C8_Witness ==
    /\ op = "extract"
    /\ err = "ok"
    /\ Len(values) = 2
    /\ values[1] # values[2]

----------------------------------------------------------------------------
(* The monitor: claims C9, C10 *)

\* the sum of N over the calls that ended well, N counted in front of the
\* last k dimensions of each batch
FramesFed(k) ==
    SumInt([i \in 1..Len(OkCalls) |-> Prod(Prefix(OkCalls[i].frames.shape, k))])

\* C9 as stated: with monitoring on, total_frames is the sum over the calls
\* that ended well of N, the product of the batch's dimensions in front of the
\* per-frame shape the processor is built for, and get_fps() is that sum over
\* the time from construction to the latest call.
C9_TotalIsSumOfConfiguredN ==
    monitor =>
       /\ total_frames = FramesFed(Len(ConfiguredShape))
       /\ runtime > 0 => get_fps = Norm(FramesFed(Len(ConfiguredShape)), clock - start)

\* C9 amended: N is the product of the batch's dimensions in front of its last
\* three, whatever shape the processor is built for.
C9_TotalIsSumOfFrames ==
    monitor =>
       /\ total_frames = FramesFed(Len(FrameShape))
       /\ runtime = clock - start
       /\ runtime > 0 => get_fps = Norm(FramesFed(Len(FrameShape)), clock - start)

\* two monitored calls on an OnlineStats of per-pixel shape, one frame each
\* by the monitor's count and two data points each by the claim's
C9_Witness ==
    /\ monitor
    /\ kind = "stats"
    /\ shape = <<NColors>>
    /\ Len(OkCalls) = 2
    /\ total_frames = 2
    /\ runtime > 0
    /\ FramesFed(Len(ConfiguredShape)) = 4

SumFirst(dq) == SumInt([i \in 1..Len(dq) |-> dq[i][1]])

SumSecond(dq) == SumInt([i \in 1..Len(dq) |-> dq[i][2]])

\* C10: the window never holds more than qlen entries; a call pushes an entry
\* exactly when the time since the last report exceeds monitor_freq; the
\* entry is (that time, the frames recorded since the last report); it goes
\* in front, and beyond qlen entries the oldest one leaves; the pending
\* counter restarts at 0 and the last-report time becomes now.  So the
\* entries are consecutive intervals that end at the last report, and they
\* account for every frame and all the time up to it until one is evicted.
C10_WindowHoldsLatestReports ==
    /\ [](/\ Len(deltas) <= qlen
          /\ \A i \in 1..Len(deltas) : deltas[i][1] > monitor_freq
          /\ SumFirst(deltas) <= last_print - start
          /\ SumSecond(deltas) + frames_since_last_call <= total_frames
          /\ Len(deltas) < qlen =>
                /\ SumFirst(deltas) = last_print - start
                /\ SumSecond(deltas) + frames_since_last_call = total_frames)
    /\ [][(calls' # calls /\ err' = "ok") =>
            LET n == total_frames' - total_frames
                delta == clock' - last_print
                grown == << <<delta, frames_since_last_call + n>> >> \o deltas
            IN  IF delta > monitor_freq
                THEN /\ deltas' = SubSeq(grown, 1, IF Len(grown) > qlen THEN qlen
                                                    ELSE Len(grown))
                     /\ frames_since_last_call' = 0
                     /\ last_print' = clock'
                ELSE /\ deltas' = deltas
                     /\ frames_since_last_call' = frames_since_last_call + n
                     /\ last_print' = last_print
          ]_vars

\* a full window that has lost its oldest entry, with frames pending
C10_Witness ==
    /\ Len(deltas) = qlen
    /\ SumFirst(deltas) < last_print - start
    /\ frames_since_last_call > 0

====
